---- MODULE Spec2Model ----
(***************************************************************************)
(* Model of the Amazon Lex code hook in                                    *)
(*   src/13-AWS/3/Activities/02-Ins_Intro_Lambda/Solved/lambda_function.py *)
(*                                                                         *)
(* Strings are sequences of one-character strings.  A Python value that    *)
(* may be None is a sequence of length <= 1: None is << >>, a present      *)
(* value x is <<x>>.  A Python float is a record [nan, num, den]: either   *)
(* not-a-number, or the rational num/den (den > 0).  An exception leaving  *)
(* a function is the field exc of its result ("" when it returned).        *)
(***************************************************************************)
EXTENDS Integers, Sequences, FiniteSets, TLC

VARIABLES event, input, pc, response, error, validation, quotes, now, elicited

vars == <<event, input, pc, response, error, validation, quotes, now, elicited>>

\* ------------------------------------------------------------------ bounds
\* Longest amount string the user types.
MaxLen == 2
\* Cap on the number of turns of one conversation.
MaxTurns == 4

\* ------------------------------------------------------------ Python values
None == << >>
Some(x) == <<x>>
IsNone(o) == o = << >>
Val(o) == o[1]

NoExc == ""

Digits == {"0", "1", "2", "3", "4", "5", "6", "7", "8", "9"}

DigitVal(c) ==
    CASE c = "0" -> 0 [] c = "1" -> 1 [] c = "2" -> 2 [] c = "3" -> 3
      [] c = "4" -> 4 [] c = "5" -> 5 [] c = "6" -> 6 [] c = "7" -> 7
      [] c = "8" -> 8 [] c = "9" -> 9

DigitChar(n) ==
    CASE n = 0 -> "0" [] n = 1 -> "1" [] n = 2 -> "2" [] n = 3 -> "3"
      [] n = 4 -> "4" [] n = 5 -> "5" [] n = 6 -> "6" [] n = 7 -> "7"
      [] n = 8 -> "8" [] n = 9 -> "9"

RECURSIVE Pow10(_)
Pow10(k) == IF k = 0 THEN 1 ELSE 10 * Pow10(k - 1)

\* int(s) of a string of decimal digits.
RECURSIVE DigitsToInt(_)
DigitsToInt(s) ==
    IF s = << >> THEN 0
    ELSE 10 * DigitsToInt(SubSeq(s, 1, Len(s) - 1)) + DigitVal(s[Len(s)])

\* The characters of s that are not c, in order.
RECURSIVE Without(_, _)
Without(s, c) ==
    IF s = << >> THEN << >>
    ELSE IF Head(s) = c THEN Without(Tail(s), c)
    ELSE <<Head(s)>> \o Without(Tail(s), c)

\* ------------------------------------------------------------------ floats
NaN == [nan |-> TRUE, num |-> 0, den |-> 1]
Num(n, d) == [nan |-> FALSE, num |-> n, den |-> d]

\* float(s) accepts s: an optional sign, then digits with at most one
\* decimal point and at least one digit.  (Of Python's float grammar this is
\* the part the characters of the model's strings can spell: no exponent,
\* no "inf"/"nan", no blanks or underscores.)
IsFloatLiteral(s) ==
    LET b == IF s # << >> /\ Head(s) \in {"-", "+"} THEN Tail(s) ELSE s
    IN  /\ \A i \in 1..Len(b) : b[i] \in Digits \cup {"."}
        /\ Cardinality({i \in 1..Len(b) : b[i] = "."}) <= 1
        /\ \E i \in 1..Len(b) : b[i] \in Digits

\* float(s) for a literal s.
FloatOf(s) ==
    LET neg  == s # << >> /\ Head(s) = "-"
        b    == IF s # << >> /\ Head(s) \in {"-", "+"} THEN Tail(s) ELSE s
        dots == {i \in 1..Len(b) : b[i] = "."}
        frac == IF dots = {} THEN 0 ELSE Len(b) - (CHOOSE i \in dots : TRUE)
        mag  == DigitsToInt(Without(b, "."))
    IN  Num(IF neg THEN 0 - mag ELSE mag, Pow10(frac))

\* def parse_float(n): float(n), with ValueError turned into nan.  float(None)
\* raises TypeError, which the except clause does not catch.
parse_float(n) ==
    IF IsNone(n) THEN [exc |-> "TypeError", value |-> NaN]
    ELSE IF IsFloatLiteral(Val(n)) THEN [exc |-> NoExc, value |-> FloatOf(Val(n))]
    ELSE [exc |-> NoExc, value |-> NaN]

\* x < 0 in the place of x <= 0.
LeqZero_strict(x) == ~x.nan /\ x.num < 0

\* x <= 0 on floats: every comparison with nan is False.
LeqZero(x) == ~x.nan /\ x.num <= 0
\* x == 0 on floats.
IsZero(x) == ~x.nan /\ x.num = 0

\* x / y for y # 0: nan if either is nan.
FloatDiv(x, y) ==
    IF x.nan \/ y.nan THEN NaN
    ELSE IF y.num > 0 THEN Num(x.num * y.den, x.den * y.num)
    ELSE Num(0 - (x.num * y.den), x.den * (0 - y.num))

\* Number of decimal places btc_value is rounded to.
RoundDigits == 4

\* round(x, ndigits): nan stays nan; a rational goes to the nearest multiple
\* of 10^-ndigits, a tie to the even one.
round(x, ndigits) ==
    IF x.nan THEN NaN
    ELSE LET scaled == x.num * Pow10(ndigits)
             q == scaled \div x.den
             r == scaled % x.den
             n == IF 2 * r > x.den THEN q + 1
                  ELSE IF 2 * r = x.den THEN q + (q % 2)
                  ELSE q
         IN  Num(n, Pow10(ndigits))

\* ------------------------------------------------------------------- dates
\* A date is <<year, month, day>>.
IsLeap(y) == (y % 4 = 0 /\ y % 100 # 0) \/ y % 400 = 0

DaysInMonth(y, m) ==
    IF m = 2 THEN (IF IsLeap(y) THEN 29 ELSE 28)
    ELSE IF m \in {4, 6, 9, 11} THEN 30 ELSE 31

Before(a, b) ==
    \/ a[1] < b[1]
    \/ a[1] = b[1] /\ a[2] < b[2]
    \/ a[1] = b[1] /\ a[2] = b[2] /\ a[3] < b[3]

\* The fields of s between the "-" characters.
RECURSIVE SplitDash(_)
SplitDash(s) ==
    IF \A i \in 1..Len(s) : s[i] # "-" THEN <<s>>
    ELSE LET k == CHOOSE i \in 1..Len(s) :
                     s[i] = "-" /\ \A j \in 1..(i - 1) : s[j] # "-"
         IN  <<SubSeq(s, 1, k - 1)>> \o SplitDash(SubSeq(s, k + 1, Len(s)))

AllDigits(f) == f # << >> /\ \A i \in 1..Len(f) : f[i] \in Digits

\* datetime.strptime(s, "%Y-%m-%d"): a four-digit year, a month and a day of
\* one or two digits, naming a day of the calendar; ValueError otherwise.
strptime(s) ==
    LET f  == SplitDash(s)
        ok == /\ Len(f) = 3
              /\ \A i \in 1..3 : AllDigits(f[i])
              /\ Len(f[1]) = 4 /\ Len(f[2]) \in 1..2 /\ Len(f[3]) \in 1..2
              /\ DigitsToInt(f[1]) >= 1
              /\ DigitsToInt(f[2]) \in 1..12
              /\ DigitsToInt(f[3]) \in 1..DaysInMonth(DigitsToInt(f[1]), DigitsToInt(f[2]))
    IN  IF ok
        THEN [exc |-> NoExc,
              value |-> <<DigitsToInt(f[1]), DigitsToInt(f[2]), DigitsToInt(f[3])>>]
        ELSE [exc |-> "ValueError", value |-> <<1, 1, 1>>]

\* dt + relativedelta(months = k): the day is cut to the month's last day.
AddMonths(dt, k) ==
    LET total == dt[1] * 12 + (dt[2] - 1) + k
        y == total \div 12
        m == (total % 12) + 1
        dm == DaysInMonth(y, m)
    IN  <<y, m, IF dt[3] > dm THEN dm ELSE dt[3]>>

\* relativedelta(dt1, dt2): the month difference is corrected until dt2 plus
\* it no longer passes dt1.  dt2 is a midnight and dt1 = datetime.now() lies
\* after the midnight of its day.
RECURSIVE MonthsDown(_, _, _)
MonthsDown(dt1, dt2, k) ==
    IF Before(dt1, AddMonths(dt2, k)) THEN MonthsDown(dt1, dt2, k - 1) ELSE k

RECURSIVE MonthsUp(_, _, _)
MonthsUp(dt1, dt2, k) ==
    IF ~Before(dt1, AddMonths(dt2, k)) THEN MonthsUp(dt1, dt2, k + 1) ELSE k

\* relativedelta(dt1, dt2).years: the whole years in the month difference,
\* cut towards zero.
relativedelta_years(dt1, dt2) ==
    LET k0 == (dt1[1] - dt2[1]) * 12 + (dt1[2] - dt2[2])
        k  == IF Before(dt1, dt2) THEN MonthsUp(dt1, dt2, k0)
              ELSE MonthsDown(dt1, dt2, k0)
    IN  IF k >= 0 THEN k \div 12 ELSE 0 - ((0 - k) \div 12)

\* -------------------------------------------------------------- validation
\* The age from which the service may be used.
AdultAge == 18

BirthdayMessage == "You should be at least 18 years old to use this service, please provide a different date of birth."
AmountMessage == "The amount to convert should be greater than zero, please provide a correct amount in dollars to convert."

\* build_validation_result without its first branch: the message is always there.
build_validation_result_always_message(is_valid, violated_slot, message_content) ==
    [isValid |-> is_valid, violatedSlot |-> violated_slot,
     message |-> Some([contentType |-> "PlainText", content |-> message_content])]

\* def build_validation_result(is_valid, violated_slot, message_content):
\* the dictionary has no "message" key when message_content is None.
build_validation_result(is_valid, violated_slot, message_content) ==
    IF IsNone(message_content)
    THEN [isValid |-> is_valid, violatedSlot |-> violated_slot, message |-> None]
    ELSE [isValid |-> is_valid, violatedSlot |-> violated_slot,
          message |-> Some([contentType |-> "PlainText",
                            content |-> Val(message_content)])]

Raised(e) == [exc |-> e, value |-> build_validation_result(FALSE, None, None)]
Returned(v) == [exc |-> NoExc, value |-> v]

\* The second rule with `is not None` forgotten: a missing amount is refused.
amount_rule_missing_refused(cad_amount) ==
    IF IsNone(cad_amount) \/ LeqZero(parse_float(cad_amount).value)
    THEN [isValid |-> FALSE, violatedSlot |-> Some("cadAmount"),
          message |-> Some([contentType |-> "PlainText", content |-> AmountMessage])]
    ELSE [isValid |-> TRUE, violatedSlot |-> None, message |-> None]

\* The second rule of validate_data: the amount should be > 0.
amount_rule(cad_amount) ==
    IF ~IsNone(cad_amount) /\ LeqZero(parse_float(cad_amount).value)
    THEN build_validation_result(FALSE, Some("cadAmount"), Some(AmountMessage))
    ELSE build_validation_result(TRUE, None, None)

\* validate_data with its two rules in the other order.
validate_data_amount_first(birthday, cad_amount, today) ==
    IF ~amount_rule(cad_amount).isValid
    THEN Returned(amount_rule(cad_amount))
    ELSE IF ~IsNone(birthday) /\ strptime(Val(birthday)).exc # NoExc
    THEN Raised(strptime(Val(birthday)).exc)
    ELSE IF /\ ~IsNone(birthday)
            /\ relativedelta_years(today, strptime(Val(birthday)).value) < AdultAge
    THEN Returned(build_validation_result(FALSE, Some("birthday"), Some(BirthdayMessage)))
    ELSE Returned(build_validation_result(TRUE, None, None))

\* def validate_data(birthday, cad_amount, intent_request), called at `today`.
validate_data(birthday, cad_amount, today) ==
    IF ~IsNone(birthday) /\ strptime(Val(birthday)).exc # NoExc
    THEN Raised(strptime(Val(birthday)).exc)
    ELSE IF /\ ~IsNone(birthday)
            /\ relativedelta_years(today, strptime(Val(birthday)).value) < AdultAge
    THEN Returned(build_validation_result(FALSE, Some("birthday"), Some(BirthdayMessage)))
    ELSE Returned(amount_rule(cad_amount))

\* ---------------------------------------------------------- dialog actions
\* def get_slots(intent_request)
get_slots(intent_request) == intent_request.currentIntent.slots

\* def elicit_slot(session_attributes, intent_name, slots, slot_to_elicit, message)
elicit_slot(session_attributes, intent_name, slots, slot_to_elicit, message) ==
    [sessionAttributes |-> session_attributes,
     dialogAction |-> [type |-> "ElicitSlot",
                       intentName |-> intent_name,
                       slots |-> slots,
                       slotToElicit |-> slot_to_elicit,
                       message |-> message]]

\* def delegate(session_attributes, slots)
delegate(session_attributes, slots) ==
    [sessionAttributes |-> session_attributes,
     dialogAction |-> [type |-> "Delegate", slots |-> slots]]

\* def close(session_attributes, fulfillment_state, message)
close(session_attributes, fulfillment_state, message) ==
    [sessionAttributes |-> session_attributes,
     dialogAction |-> [type |-> "Close",
                       fulfillmentState |-> fulfillment_state,
                       message |-> message]]

\* ------------------------------------------------------------ price oracle
\* What requests.get(...).json() gives get_btcprice: no answer at all (the
\* call raises), or the "price" entry of the answer, null or a number in
\* its decimal text.
PriceTexts == {<<"3", "2">>, <<"3">>, <<"0">>, <<".", "5">>, <<"a">>}

OracleReplies ==
    {[ok |-> FALSE, price |-> None], [ok |-> TRUE, price |-> None]}
        \cup {[ok |-> TRUE, price |-> Some(t)] : t \in PriceTexts}

\* def get_btcprice()
get_btcprice(reply) ==
    IF ~reply.ok THEN [exc |-> "ConnectionError", value |-> NaN]
    ELSE parse_float(reply.price)

\* --------------------------------------------------------- intent handlers
\* What a call leaves behind: the exception that left it (NoExc if it
\* returned), the value returned, the request object as the call left it,
\* the validation result if validate_data returned one, the answers of the
\* price oracle to the lookups made, and whether the clock was read.
Outcome(e, resp, req, val, qs, clk) ==
    [exc |-> e, response |-> resp, request |-> req, validation |-> val,
     lookups |-> qs, clockRead |-> clk]

CloseText == "Thank you for your information; you can get {} Bitcoins for your ${} dollars."

\* convert_cad, lines 198-214: the fulfillment.
fulfill(intent_request, reply) ==
    LET cad_amount == get_slots(intent_request).cadAmount
        amount == parse_float(cad_amount)
        price == get_btcprice(reply)
    IN  IF amount.exc # NoExc
        THEN Outcome(amount.exc, None, intent_request, None, << >>, FALSE)
        ELSE IF price.exc # NoExc
        THEN Outcome(price.exc, None, intent_request, None, <<reply>>, FALSE)
        ELSE IF IsZero(price.value)
        THEN Outcome("ZeroDivisionError", None, intent_request, None, <<reply>>, FALSE)
        ELSE Outcome(NoExc,
                     Some(close(intent_request.sessionAttributes, "Fulfilled",
                                [contentType |-> "PlainText",
                                 content |-> [text |-> CloseText,
                                              btc_value |-> round(FloatDiv(amount.value, price.value), RoundDigits),
                                              cad_amount |-> Val(cad_amount)]])),
                     intent_request, None, <<reply>>, FALSE)

\* The invalid slot left as it is.
clean_slot_kept(slots, violated) == slots

\* slots[violated] = None
clean_slot(slots, violated) == [slots EXCEPT ![violated] = None]

\* convert_cad, lines 169-196: the validation of the slots.  slots is the
\* request's own dictionary, so clearing the invalid slot clears it in the
\* request as well.
dialog_code_hook(intent_request, today) ==
    LET birthday == get_slots(intent_request).birthday
        cad_amount == get_slots(intent_request).cadAmount
        slots == get_slots(intent_request)
        validation_result == validate_data(birthday, cad_amount, today)
        clk == ~IsNone(birthday)
    IN  IF validation_result.exc # NoExc
        THEN Outcome(validation_result.exc, None, intent_request, None, << >>, clk)
        ELSE IF ~validation_result.value.isValid
        THEN LET violated == Val(validation_result.value.violatedSlot)
                 cleaned == clean_slot(slots, violated)
                 request == [intent_request EXCEPT !.currentIntent.slots = cleaned]
             IN  Outcome(NoExc,
                         Some(elicit_slot(request.sessionAttributes,
                                          request.currentIntent.name,
                                          cleaned,
                                          violated,
                                          Val(validation_result.value.message))),
                         request, Some(validation_result.value), << >>, clk)
        ELSE Outcome(NoExc,
                     Some(delegate(intent_request.sessionAttributes,
                                   get_slots(intent_request))),
                     intent_request, Some(validation_result.value), << >>, clk)

\* convert_cad with the invocation source misspelt in the comparison.
convert_cad_misspelt(intent_request, today, reply) ==
    IF intent_request.invocationSource = "DialogCodehook"
    THEN dialog_code_hook(intent_request, today)
    ELSE fulfill(intent_request, reply)

\* def convert_cad(intent_request)
convert_cad(intent_request, today, reply) ==
    IF intent_request.invocationSource = "DialogCodeHook"
    THEN dialog_code_hook(intent_request, today)
    ELSE fulfill(intent_request, reply)

\* dispatch without the test of the intent's name.
dispatch_any_intent(intent_request, today, reply) ==
    convert_cad(intent_request, today, reply)

\* def dispatch(intent_request)
dispatch(intent_request, today, reply) ==
    IF intent_request.currentIntent.name = "convertCAD"
    THEN convert_cad(intent_request, today, reply)
    ELSE Outcome("Exception", None, intent_request, None, << >>, FALSE)

\* ------------------------------------------------------------------ inputs
Alphabet == {"0", "1", "-", ".", "a"}

\* Every string of at most MaxLen characters.
AmountTexts == UNION {[1..n -> Alphabet] : n \in 0..MaxLen}

\* Two decimal digits of n, and four.
Pad2(n) == <<DigitChar(n \div 10), DigitChar(n % 10)>>
Pad4(n) == Pad2(n \div 100) \o Pad2(n % 100)
\* date.strftime("%Y-%m-%d")
FormatDate(dt) == Pad4(dt[1]) \o <<"-">> \o Pad2(dt[2]) \o <<"-">> \o Pad2(dt[3])

\* Birth dates the user gives: around the eighteenth birthday, a leap day, a
\* day that is not in the calendar, a day to come.
BirthDates ==
    {<<1990, 1, 1>>, <<2000, 2, 29>>, <<2002, 6, 15>>, <<2002, 6, 16>>,
     <<2002, 2, 29>>, <<2030, 1, 1>>}

BirthdayTexts == {FormatDate(d) : d \in BirthDates} \cup {<<"a">>}

\* Values of datetime.now().
ClockDates == {<<2018, 2, 28>>, <<2020, 6, 15>>}

IntentNames == {"convertCAD", "otherIntent"}
InvocationSources == {"DialogCodeHook", "FulfillmentCodeHook"}
SessionAttributes == {None, Some("attrs")}

Optional(S) == {None} \cup {Some(x) : x \in S}

IntentRequests ==
    [currentIntent : [name : IntentNames,
                      slots : [birthday : Optional(BirthdayTexts),
                               cadAmount : Optional(AmountTexts)]],
     invocationSource : InvocationSources,
     sessionAttributes : SessionAttributes]

\* ------------------------------------------------------------------ system
\* The dialogue service holds a request for the handler.
Init ==
    /\ event \in IntentRequests
    /\ input = event
    /\ pc = "ready"
    /\ response = None
    /\ error = NoExc
    /\ validation = None
    /\ quotes = << >>
    /\ now = None
    /\ elicited = << >>

\* def lambda_handler(event, context): return dispatch(event)
lambda_handler ==
    /\ pc = "ready"
    /\ \E today \in ClockDates, reply \in OracleReplies :
         LET out == dispatch(event, today, reply)
         IN  /\ event' = out.request
             /\ response' = out.response
             /\ error' = out.exc
             /\ pc' = IF out.exc = NoExc THEN "returned" ELSE "raised"
             /\ validation' = out.validation
             /\ quotes' = out.lookups
             /\ now' = IF out.clockRead THEN Some(today) ELSE None
             /\ elicited' =
                  IF out.exc = NoExc /\ Val(out.response).dialogAction.type = "ElicitSlot"
                  THEN Append(elicited, Val(out.response).dialogAction.slotToElicit)
                  ELSE elicited
    /\ UNCHANGED input

\* The user gives no new value: the dialogue service calls the handler again
\* with the slots of the ElicitSlot response.
FeedBack ==
    /\ pc = "returned"
    /\ Val(response).dialogAction.type = "ElicitSlot"
    /\ Len(elicited) < MaxTurns
    /\ event' = [currentIntent |-> [name |-> Val(response).dialogAction.intentName,
                                    slots |-> Val(response).dialogAction.slots],
                 invocationSource |-> "DialogCodeHook",
                 sessionAttributes |-> Val(response).sessionAttributes]
    /\ input' = event'
    /\ pc' = "ready"
    /\ response' = None
    /\ error' = NoExc
    /\ validation' = None
    /\ quotes' = << >>
    /\ now' = None
    /\ UNCHANGED elicited

\* The dialogue service, told to go on, asks for the fulfillment.
Fulfillment ==
    /\ pc = "returned"
    /\ Val(response).dialogAction.type = "Delegate"
    /\ event' = [currentIntent |-> [name |-> event.currentIntent.name,
                                    slots |-> Val(response).dialogAction.slots],
                 invocationSource |-> "FulfillmentCodeHook",
                 sessionAttributes |-> Val(response).sessionAttributes]
    /\ input' = event'
    /\ pc' = "ready"
    /\ response' = None
    /\ error' = NoExc
    /\ validation' = None
    /\ quotes' = << >>
    /\ now' = None
    /\ UNCHANGED elicited

Next == lambda_handler \/ FeedBack \/ Fulfillment

Spec == Init /\ [][Next]_vars

\* ------------------------------------------------------------------ claims
\* The request as the handler was given it, and what it was asked.
InSlots == input.currentIntent.slots
Handled == pc # "ready"
IsConvertCAD == input.currentIntent.name = "convertCAD"
IsDialogCodeHook == input.invocationSource = "DialogCodeHook"
Validating == Handled /\ IsConvertCAD /\ IsDialogCodeHook
Fulfilling == Handled /\ IsConvertCAD /\ ~IsDialogCodeHook

BirthdayParses(slots) ==
    IsNone(slots.birthday) \/ strptime(Val(slots.birthday)).exc = NoExc
\* The age validate_data computed from the input's birth date.
AgeRead == relativedelta_years(Val(now), strptime(Val(InSlots.birthday)).value)
Underage ==
    ~IsNone(InSlots.birthday) /\ BirthdayParses(InSlots) /\ ~IsNone(now) /\ AgeRead < 18
BirthdayPasses ==
    IsNone(InSlots.birthday) \/ (BirthdayParses(InSlots) /\ ~IsNone(now) /\ AgeRead >= 18)
AmountNumeric == ~IsNone(InSlots.cadAmount) /\ IsFloatLiteral(Val(InSlots.cadAmount))
AmountNonNumeric == ~IsNone(InSlots.cadAmount) /\ ~IsFloatLiteral(Val(InSlots.cadAmount))
AmountValue == FloatOf(Val(InSlots.cadAmount))

Failed == ~IsNone(validation) /\ ~Val(validation).isValid
Passed == ~IsNone(validation) /\ Val(validation).isValid
RespType == Val(response).dialogAction.type
Responded(t) == pc = "returned" /\ ~IsNone(response) /\ RespType = t

InvalidBirthday ==
    [isValid |-> FALSE, violatedSlot |-> Some("birthday"),
     message |-> Some([contentType |-> "PlainText", content |-> BirthdayMessage])]
InvalidAmount ==
    [isValid |-> FALSE, violatedSlot |-> Some("cadAmount"),
     message |-> Some([contentType |-> "PlainText", content |-> AmountMessage])]
Valid == [isValid |-> TRUE, violatedSlot |-> None, message |-> None]

\* C1: a convertCAD request in DialogCodeHook whose slots fail validation
\* (validate_data refuses them: an age under 18, or an amount <= 0) is
\* answered by ElicitSlot; the slot to elicit is the first violated one (the
\* birthday if the user is under 18, else the amount), the message is that
\* slot's validation message, and the response's slots are the input's with
\* that slot set to None and the other one as given.
C1_ElicitFirstViolation ==
    (Validating /\ (\/ Failed
                    \/ Underage
                    \/ BirthdayPasses /\ AmountNumeric /\ AmountValue.num <= 0)) =>
        LET first == IF Underage THEN "birthday" ELSE "cadAmount"
            other == IF Underage THEN "cadAmount" ELSE "birthday"
        IN  /\ Responded("ElicitSlot")
            /\ Val(response).dialogAction.slotToElicit = first
            /\ Val(response).dialogAction.message = Val(Val(validation).message)
            /\ Val(response).dialogAction.message.content =
                   (IF Underage THEN BirthdayMessage ELSE AmountMessage)
            /\ IsNone(Val(response).dialogAction.slots[first])
            /\ Val(response).dialogAction.slots[other] = InSlots[other]
            /\ Val(response).dialogAction.intentName = input.currentIntent.name
            /\ Val(response).sessionAttributes = input.sessionAttributes

\* The birthday is elicited while the amount, which is refused too, is kept.
C1_Witness ==
    /\ Validating /\ Failed /\ Underage
    /\ AmountNumeric /\ LeqZero(AmountValue)
    /\ Responded("ElicitSlot")
    /\ Val(response).dialogAction.slotToElicit = "birthday"
    /\ Val(response).dialogAction.slots.cadAmount = InSlots.cadAmount

\* C2: a convertCAD request in DialogCodeHook whose slots pass validation is
\* answered by Delegate with the input's slots and session attributes; slots
\* that are each absent or valid (an adult's birthday, an amount > 0) pass, and
\* an absent slot is never the violated one.
C2_DelegateUnchanged ==
    /\ (Validating /\ Passed) =>
           /\ Responded("Delegate")
           /\ Val(response).dialogAction.slots = InSlots
           /\ Val(response).sessionAttributes = input.sessionAttributes
    /\ (Validating /\ BirthdayPasses
          /\ (IsNone(InSlots.cadAmount) \/ (AmountNumeric /\ AmountValue.num > 0))) =>
           Passed
    /\ (Validating /\ Failed) =>
           ~IsNone(InSlots[Val(Val(validation).violatedSlot)])

\* Delegate with one slot missing and the other valid.
C2_Witness ==
    /\ Validating /\ Passed /\ Responded("Delegate")
    /\ IsNone(InSlots.cadAmount) /\ ~IsNone(InSlots.birthday)
    /\ ~IsNone(input.sessionAttributes)

\* The oracle gave a price (or was not asked).
OracleGavePrice == \A i \in 1..Len(quotes) : quotes[i].ok /\ ~IsNone(quotes[i].price)

\* C3: a convertCAD request with another invocation source is answered by
\* Close with fulfillmentState Fulfilled, whatever the amount slot holds and
\* whatever price the oracle gives; the message carries amount / price rounded
\* to 4 places and the amount as given.
C3_AlwaysClose ==
    (Fulfilling /\ OracleGavePrice) =>
        /\ Responded("Close")
        /\ Val(response).dialogAction.fulfillmentState = "Fulfilled"
        /\ Val(response).dialogAction.message.content.cad_amount = Val(InSlots.cadAmount)
        /\ Val(response).dialogAction.message.content.btc_value =
               round(FloatDiv(parse_float(InSlots.cadAmount).value,
                              parse_float(quotes[1].price).value), 4)

\* C4: a request for another intent ends in an exception and no response; the
\* slots are not validated, the clock is not read and the price oracle is not
\* asked, whatever the invocation source and the slots.
C4_UnknownIntentFatal ==
    (Handled /\ ~IsConvertCAD) =>
        /\ pc = "raised"
        /\ error = "Exception"
        /\ IsNone(response)
        /\ IsNone(validation)
        /\ IsNone(now)
        /\ quotes = << >>

\* Another intent in DialogCodeHook, with a birthday convertCAD would refuse.
C4_Witness ==
    /\ Handled /\ ~IsConvertCAD /\ IsDialogCodeHook
    /\ InSlots.birthday = Some(FormatDate(<<2030, 1, 1>>))
    /\ pc = "raised"

\* C5: an amount that is no number, with the birthday absent or an adult's,
\* makes validate_data return (not raise) isValid = false with violated slot
\* cadAmount.
C5_NonNumericRefused ==
    (Validating /\ AmountNonNumeric /\ BirthdayPasses) =>
        /\ pc = "returned"
        /\ validation = Some(InvalidAmount)

\* C6: a birthday giving an age under 18 makes validate_data return isValid =
\* false with violated slot birthday and the birthday's message, whatever the
\* amount is.
C6_UnderageBirthdayFirst ==
    (Validating /\ Underage) => validation = Some(InvalidBirthday)

\* An under-age birthday together with an amount that is refused as well.
C6_Witness ==
    /\ Validating /\ Underage
    /\ AmountNumeric /\ LeqZero(AmountValue)
    /\ validation = Some(InvalidBirthday)

\* C7: with the birthday absent or giving an age >= 18 and the amount absent
\* or a number, validate_data returns valid with no violated slot if the
\* amount is absent or > 0, and invalid with violated slot cadAmount if it is
\* <= 0.
C7_AmountRule ==
    (Validating /\ BirthdayPasses /\ (IsNone(InSlots.cadAmount) \/ AmountNumeric)) =>
        IF IsNone(InSlots.cadAmount) \/ AmountValue.num > 0
        THEN validation = Some(Valid)
        ELSE validation = Some(InvalidAmount)

\* The amount zero on the eighteenth birthday.
C7_Witness ==
    /\ Validating
    /\ InSlots.birthday = Some(FormatDate(<<2002, 6, 15>>))
    /\ now = Some(<<2020, 6, 15>>) /\ AgeRead = 18
    /\ AmountNumeric /\ AmountValue.num = 0
    /\ validation = Some(InvalidAmount)

\* C8: in every result of validate_data the violated slot and the message are
\* both there or both missing, and they are missing exactly when isValid.
C8_ResultShape ==
    ~IsNone(validation) =>
        /\ IsNone(Val(validation).violatedSlot) <=> IsNone(Val(validation).message)
        /\ Val(validation).isValid <=> IsNone(Val(validation).violatedSlot)

\* A valid result of a call that had both slots to look at.
C8_Witness ==
    /\ Passed
    /\ ~IsNone(InSlots.birthday) /\ ~IsNone(InSlots.cadAmount)
    /\ IsNone(Val(validation).message)

\* C9: when the handler has returned or raised, the request holds what it
\* held when the handler was called.
C9_RequestUnchanged == Handled => event = input

\* C10: while the slots of each ElicitSlot response come back unchanged in
\* DialogCodeHook, a call over slots that parse returns ElicitSlot or
\* Delegate and never raises, at most two slots are elicited and never the
\* same one twice (so the third call at the latest returns Delegate), and no
\* such call ends in Close or asks the price oracle.
C10_ConversationDelegates ==
    /\ Len(elicited) <= 2
    /\ \A i, j \in 1..Len(elicited) : i # j => elicited[i] # elicited[j]
    /\ Validating => (quotes = << >> /\ ~Responded("Close"))
    /\ (Validating /\ BirthdayParses(InSlots)) =>
           (Responded("ElicitSlot") \/ Responded("Delegate"))
    /\ (Validating /\ Len(elicited) = 2 /\ ~Responded("ElicitSlot")) =>
           Responded("Delegate")

\* Delegate after both slots were elicited.
C10_Witness ==
    /\ Validating /\ Responded("Delegate")
    /\ elicited = <<"birthday", "cadAmount">>

====
